---------------------------- MODULE Spec2Model ----------------------------
(***************************************************************************)
(* A model of the karics HTTP framework core: the regex router             *)
(* (src/src/router.rs), the per-connection ApiService built on it, and the *)
(* response object with its wire encoder (src/src/response.rs).            *)
(*                                                                         *)
(* Text (paths, pattern texts, header lines, bodies, the output buffer) is *)
(* a sequence of one-character strings, one element per byte.              *)
(***************************************************************************)
EXTENDS Integers, Sequences, FiniteSets, TLC

(***************************************************************************)
(* The regex crate, on the syntax the modelled pattern texts use:          *)
(* literals, '.', '\d', capturing groups, the quantifiers ? * + (greedy,   *)
(* or lazy with a trailing ?), and the assertions ^ and $.                 *)
(***************************************************************************)
\* The element of the one-element set S. It is used as
\*     The({F(x) : x \in {e}})
\* for F(e): the value of e is computed once and bound to x.
The(S) == CHOOSE x \in S : TRUE

Digits == {"0", "1", "2", "3", "4", "5", "6", "7", "8", "9"}

MetaChars == {"(", ")", "?", "*", "+", ".", "^", "$", "\\"}

Quantifiers == {"?", "*", "+"}

Leaf(t, c) == [t |-> t, c |-> c, g |-> 0, lazy |-> FALSE, kids |-> <<>>]

Cat(nodes) == [t |-> "cat", c |-> "", g |-> 0, lazy |-> FALSE, kids |-> nodes]

Group(g, nodes) == [t |-> "group", c |-> "", g |-> g, lazy |-> FALSE, kids |-> <<Cat(nodes)>>]

Rep(q, node) == [t |-> "rep", c |-> q, g |-> 0, lazy |-> FALSE, kids |-> <<node>>]

ParseFail == [ok |-> FALSE, nodes |-> <<>>, i |-> 0, ng |-> 0]

ReplaceLast(acc, node) == [acc EXCEPT ![Len(acc)] = node]

\* The parser of a concatenation: it reads txt from position i until the end
\* of the text or an unmatched ')', with ng groups opened so far, acc the
\* items read so far, and q saying that the previous character was a
\* quantifier (so that a following '?' makes it lazy).
RECURSIVE ParseSeq(_, _, _, _, _)
ParseSeq(txt, i, ng, acc, q) ==
    IF i > Len(txt) THEN [ok |-> TRUE, nodes |-> acc, i |-> i, ng |-> ng]
    ELSE LET c == txt[i] IN
      CASE c = ")" -> [ok |-> TRUE, nodes |-> acc, i |-> i, ng |-> ng]
        [] c = "(" ->
             LET r == ParseSeq(txt, i + 1, ng + 1, <<>>, FALSE) IN
             IF r.ok /\ r.i <= Len(txt)
             THEN ParseSeq(txt, r.i + 1, r.ng,
                           Append(acc, Group(ng + 1, r.nodes)), FALSE)
             ELSE ParseFail                      \* unclosed group
        [] c \in Quantifiers ->
             IF q /\ c = "?"
             THEN ParseSeq(txt, i + 1, ng,
                           ReplaceLast(acc, [acc[Len(acc)] EXCEPT !.lazy = TRUE]),
                           FALSE)
             ELSE IF acc = <<>> THEN ParseFail   \* repetition operator missing expression
             ELSE ParseSeq(txt, i + 1, ng,
                           ReplaceLast(acc, Rep(c, acc[Len(acc)])), TRUE)
        [] c = "\\" ->
             IF i + 1 > Len(txt) THEN ParseFail  \* incomplete escape sequence
             ELSE IF txt[i + 1] = "d"
             THEN ParseSeq(txt, i + 2, ng, Append(acc, Leaf("digit", "")), FALSE)
             ELSE IF txt[i + 1] \in MetaChars
             THEN ParseSeq(txt, i + 2, ng, Append(acc, Leaf("lit", txt[i + 1])), FALSE)
             ELSE ParseFail                      \* unrecognized escape sequence
        [] c = "." -> ParseSeq(txt, i + 1, ng, Append(acc, Leaf("any", "")), FALSE)
        [] c = "^" -> ParseSeq(txt, i + 1, ng, Append(acc, Leaf("start", "")), FALSE)
        [] c = "$" -> ParseSeq(txt, i + 1, ng, Append(acc, Leaf("end", "")), FALSE)
        [] OTHER -> ParseSeq(txt, i + 1, ng, Append(acc, Leaf("lit", c)), FALSE)

\* Regex::new: the compiled expression keeps its source text, its syntax tree
\* and its number of capturing groups; a stray ')' is an unopened group.
Regex_new(txt) ==
    LET r == ParseSeq(txt, 1, 0, <<>>, FALSE) IN
    IF r.ok /\ r.i > Len(txt)
    THEN [ok |-> TRUE, re |-> [src |-> txt, node |-> Cat(r.nodes), ngroups |-> r.ng]]
    ELSE [ok |-> FALSE, re |-> [src |-> txt, node |-> Cat(<<>>), ngroups |-> 0]]

NoSpan == <<0, 0>>

\* the spans of n groups before a match is tried: none took part
RECURSIVE NoCaps(_)
NoCaps(n) == IF n = 0 THEN <<>> ELSE Append(NoCaps(n - 1), NoSpan)

\* The matches of node in s from position i, in the order of preference of a
\* backtracking matcher (leftmost-first semantics): each is the position after
\* the match and the spans of the groups that took part.
RECURSIVE Matches(_, _, _, _)
RECURSIVE MatchCat(_, _, _, _, _)
RECURSIVE MatchStar(_, _, _, _, _)
RECURSIVE CatRest(_, _, _, _, _)
RECURSIVE StarRest(_, _, _, _, _, _)

\* for each match of rs from index n on: the matches of the rest of the
\* concatenation kids[k..] after it
CatRest(kids, k, s, rs, n) ==
    IF n > Len(rs) THEN <<>>
    ELSE MatchCat(kids, k, s, rs[n].i, rs[n].caps) \o CatRest(kids, k, s, rs, n + 1)

MatchCat(kids, k, s, i, caps) ==
    IF k > Len(kids) THEN << [i |-> i, caps |-> caps] >>
    ELSE CatRest(kids, k + 1, s, Matches(kids[k], s, i, caps), 1)

\* for each iteration rs[n] of kid that started at i: further iterations after
\* it (an iteration that matched the empty string ends the repetition)
StarRest(kid, lazy, s, i, rs, n) ==
    IF n > Len(rs) THEN <<>>
    ELSE (IF rs[n].i > i THEN MatchStar(kid, lazy, s, rs[n].i, rs[n].caps) ELSE <<rs[n]>>)
         \o StarRest(kid, lazy, s, i, rs, n + 1)

\* zero or more iterations of kid from i
MatchStar(kid, lazy, s, i, caps) ==
    LET more == StarRest(kid, lazy, s, i, Matches(kid, s, i, caps), 1)
        none == << [i |-> i, caps |-> caps] >>
    IN IF lazy THEN none \o more ELSE more \o none

Matches(node, s, i, caps) ==
    LET here == << [i |-> i, caps |-> caps] >>
        next == << [i |-> i + 1, caps |-> caps] >>
    IN
    CASE node.t = "lit"   -> IF i <= Len(s) /\ s[i] = node.c THEN next ELSE <<>>
      [] node.t = "any"   -> IF i <= Len(s) /\ s[i] # "\n" THEN next ELSE <<>>
      [] node.t = "digit" -> IF i <= Len(s) /\ s[i] \in Digits THEN next ELSE <<>>
      [] node.t = "start" -> IF i = 1 THEN here ELSE <<>>
      [] node.t = "end"   -> IF i = Len(s) + 1 THEN here ELSE <<>>
      [] node.t = "cat"   -> MatchCat(node.kids, 1, s, i, caps)
      [] node.t = "group" ->
           LET rs == Matches(node.kids[1], s, i, caps) IN
           [n \in 1..Len(rs) |->
              [i |-> rs[n].i, caps |-> [rs[n].caps EXCEPT ![node.g] = <<i, rs[n].i>>]]]
      [] node.t = "rep" ->
           LET one == Matches(node.kids[1], s, i, caps) IN
           CASE node.c = "?" -> IF node.lazy THEN here \o one ELSE one \o here
             [] node.c = "*" -> MatchStar(node.kids[1], node.lazy, s, i, caps)
             [] node.c = "+" -> StarRest(node.kids[1], node.lazy, s, i, one, 1)

\* The leftmost position of s from which re matches (0 when there is none).
RECURSIVE SearchFrom(_, _, _)
SearchFrom(re, s, i) ==
    IF i > Len(s) + 1 THEN 0
    ELSE IF Matches(re.node, s, i, NoCaps(re.ngroups)) # <<>> THEN i
    ELSE SearchFrom(re, s, i + 1)

\* Regex::captures(path): an unanchored search. None, or the spans of group 0
\* (the whole match) and of the groups 1..ngroups; a group that took no part
\* in the match has no span.
Captures(re, s) ==
    The({IF st = 0 THEN [some |-> FALSE, spans |-> <<>>]
         ELSE The({[some |-> TRUE, spans |-> << <<st, m.i>> >> \o m.caps]
                   : m \in {Matches(re.node, s, st, NoCaps(re.ngroups))[1]}})
         : st \in {SearchFrom(re, s, 1)}})

\* Match::as_str: the text of a span
SpanText(s, span) == SubSeq(s, span[1], span[2] - 1)

(***************************************************************************)
(* hyper's Method. A method is the bytes of its name; Method::from_bytes   *)
(* accepts a non-empty name made of token characters only.                 *)
(***************************************************************************)
GET == <<"G", "E", "T">>

POST == <<"P", "O", "S", "T">>

PUT == <<"P", "U", "T">>

DELETE == <<"D", "E", "L", "E", "T", "E">>

PATCH == <<"P", "A", "T", "C", "H">>

HEAD == <<"H", "E", "A", "D">>

OPTIONS == <<"O", "P", "T", "I", "O", "N", "S">>

TRACE == <<"T", "R", "A", "C", "E">>

UpperCase == {"A", "B", "C", "D", "E", "F", "G", "H", "I", "J", "K", "L", "M",
              "N", "O", "P", "Q", "R", "S", "T", "U", "V", "W", "X", "Y", "Z"}

LowerCase == {"a", "b", "c", "d", "e", "f", "g", "h", "i", "j", "k", "l", "m",
              "n", "o", "p", "q", "r", "s", "t", "u", "v", "w", "x", "y", "z"}

\* the characters of an HTTP token
MethodChars ==
    UpperCase \cup LowerCase \cup Digits
    \cup {"!", "#", "$", "%", "&", "'", "*", "+", "-", ".", "^", "_", "|", "~"}

Method_from_bytes(bytes) ==
    IF bytes # <<>> /\ \A n \in 1..Len(bytes) : bytes[n] \in MethodChars
    THEN [ok |-> TRUE, method |-> bytes]
    ELSE [ok |-> FALSE, method |-> <<>>]

(***************************************************************************)
(* The responses handlers and the router build (hyper::Response<Vec<u8>>): *)
(* a status, an optional Content-Type header value and a body.             *)
(***************************************************************************)
BodyNotFound ==
    <<"{", "\"", "e", "r", "r", "o", "r", "\"", ":", " ", "\"", "N", "o", "t", " ", "F", "o",
      "u", "n", "d", "\"", "}">>

BodyMethodNotAllowed ==
    <<"{", "\"", "e", "r", "r", "o", "r", "\"", ":", " ", "\"", "M", "e", "t", "h", "o", "d",
      " ", "N", "o", "t", " ", "A", "l", "l", "o", "w", "e", "d", "\"", "}">>

BodyInternalServerError ==
    <<"{", "\"", "e", "r", "r", "o", "r", "\"", ":", " ", "\"", "I", "n", "t", "e", "r", "n",
      "a", "l", " ", "S", "e", "r", "v", "e", "r", " ", "E", "r", "r", "o", "r", "\"", "}">>

CtJson == <<"a", "p", "p", "l", "i", "c", "a", "t", "i", "o", "n", "/", "j", "s", "o", "n">>

CtPlain == <<"t", "e", "x", "t", "/", "p", "l", "a", "i", "n">>

CtHtml == <<"t", "e", "x", "t", "/", "h", "t", "m", "l">>

CtCsv == <<"t", "e", "x", "t", "/", "c", "s", "v">>

HyperResponse(status, content_type, body) ==
    [status |-> status, content_type |-> content_type, body |-> body]

\* itoa::Buffer::format: the decimal digits of n
DigitChar(d) ==
    CASE d = 0 -> "0" [] d = 1 -> "1" [] d = 2 -> "2" [] d = 3 -> "3" [] d = 4 -> "4"
      [] d = 5 -> "5" [] d = 6 -> "6" [] d = 7 -> "7" [] d = 8 -> "8" [] d = 9 -> "9"

RECURSIVE itoa(_)
itoa(n) == IF n < 10 THEN <<DigitChar(n)>> ELSE Append(itoa(n \div 10), DigitChar(n % 10))

RECURSIVE JoinParams(_, _)
JoinParams(params, n) ==
    IF n > Len(params) THEN <<>>
    ELSE <<",">> \o params[n] \o JoinParams(params, n + 1)

\* The handler closures the application registers, by identity h: each answers
\* with its own status and content type, and a body that spells the
\* parameters it was called with.
HandlerStatus(h) == CASE h % 3 = 1 -> 200 [] h % 3 = 2 -> 201 [] OTHER -> 404

HandlerContentType(h) ==
    CASE h % 3 = 1 -> <<CtJson>> [] h % 3 = 2 -> <<>> [] OTHER -> <<CtCsv>>

Handler(h, params) ==
    HyperResponse(HandlerStatus(h), HandlerContentType(h),
                  <<"h">> \o itoa(h) \o JoinParams(params, 1))

(***************************************************************************)
(* Router (src/src/router.rs)                                              *)
(***************************************************************************)
MatchTypes == {"Exact", "Regex", "Prefix"}

NoError == [kind |-> "", arg |-> <<>>]

RouterError(kind, arg) == [kind |-> kind, arg |-> arg]

\* Router::new: no method has a route list
Router_new == <<>>

\* the text handed to Regex::new for a pattern registered with match_type
RegexPattern(pattern, match_type) ==
    CASE match_type = "Exact"  -> <<"^">> \o pattern \o <<"$">>
      [] match_type = "Prefix" -> <<"^">> \o pattern \o <<".", "*">>
      [] match_type = "Regex"  -> pattern

\* self.routes.entry(method).or_insert_with(Vec::new).push(route)
\* PushRoute with the new route put before the others of its method
PushRoute_front(rt, method, route) ==
    IF method \in DOMAIN rt
    THEN [rt EXCEPT ![method] = <<route>> \o @]
    ELSE rt @@ (method :> <<route>>)

PushRoute(rt, method, route) ==
    IF method \in DOMAIN rt
    THEN [rt EXCEPT ![method] = Append(@, route)]
    ELSE rt @@ (method :> <<route>>)

\* route with the entry of the method made before the pattern is compiled
route_entry_first(rt, method, pattern, match_type, handler) ==
    LET c == Regex_new(RegexPattern(pattern, match_type))
        entered == IF method \in DOMAIN rt THEN rt ELSE rt @@ (method :> <<>>)
    IN IF ~c.ok
       THEN [ok |-> FALSE, routes |-> entered,
             err |-> RouterError("InvalidPattern", pattern)]
       ELSE [ok |-> TRUE,
             routes |-> PushRoute(rt, method,
                                  [pattern |-> c.re, match_type |-> match_type,
                                   handler |-> handler]),
             err |-> NoError]

\* Router::route: the routing table after the call, and the error of a
\* pattern that does not compile
route(rt, method, pattern, match_type, handler) ==
    LET c == Regex_new(RegexPattern(pattern, match_type)) IN
    IF ~c.ok
    THEN [ok |-> FALSE, routes |-> rt, err |-> RouterError("InvalidPattern", pattern)]
    ELSE [ok |-> TRUE,
          routes |-> PushRoute(rt, method,
                               [pattern |-> c.re, match_type |-> match_type,
                                handler |-> handler]),
          err |-> NoError]

\* Router::any: route() for each method in turn, stopping at the first error
RECURSIVE any(_, _, _, _)
any(rt, methods, pattern, handler) ==
    IF methods = <<>> THEN [ok |-> TRUE, routes |-> rt, err |-> NoError]
    ELSE LET r == route(rt, Head(methods), pattern, "Regex", handler) IN
         IF r.ok THEN any(r.routes, Tail(methods), pattern, handler) ELSE r

get(rt, pattern, handler) == route(rt, GET, pattern, "Regex", handler)

post(rt, pattern, handler) == route(rt, POST, pattern, "Regex", handler)

put(rt, pattern, handler) == route(rt, PUT, pattern, "Regex", handler)

delete(rt, pattern, handler) == route(rt, DELETE, pattern, "Regex", handler)

patch(rt, pattern, handler) == route(rt, PATCH, pattern, "Regex", handler)

head(rt, pattern, handler) == route(rt, HEAD, pattern, "Regex", handler)

options(rt, pattern, handler) == route(rt, OPTIONS, pattern, "Regex", handler)

\* the params of a match: one string per entry of the captures, group 0 (the
\* whole match) included, the empty string for a group without a span
CaptureParams(path, spans) ==
    [n \in 1..Len(spans) |->
        IF spans[n] = NoSpan THEN <<>> ELSE SpanText(path, spans[n])]

\* the loop of match_route over the routes of the method, from index k
RECURSIVE ScanRoutes(_, _, _)
ScanRoutes(rs, path, k) ==
    IF k > Len(rs)
    THEN [ok |-> FALSE, handler |-> 0, params |-> <<>>,
          err |-> RouterError("NotFound", path)]
    ELSE The({IF captures.some
              THEN [ok |-> TRUE, handler |-> rs[k].handler,
                    params |-> CaptureParams(path, captures.spans), err |-> NoError]
              ELSE ScanRoutes(rs, path, k + 1)
              : captures \in {Captures(rs[k].pattern, path)}})

\* match_route with a method that has no routes treated as an empty list
match_route_empty_list(rt, method, path) ==
    ScanRoutes(IF method \in DOMAIN rt THEN rt[method] ELSE <<>>, path, 1)

\* Router::match_route
match_route(rt, method, path) ==
    IF method \notin DOMAIN rt
    THEN [ok |-> FALSE, handler |-> 0, params |-> <<>>,
          err |-> RouterError("MethodNotAllowed", method)]
    ELSE ScanRoutes(rt[method], path, 1)

\* the response Router::handle builds for an error of match_route
ErrorResponse(err) ==
    CASE err.kind = "NotFound" -> HyperResponse(404, <<>>, BodyNotFound)
      [] err.kind = "MethodNotAllowed" -> HyperResponse(405, <<>>, BodyMethodNotAllowed)
      [] OTHER -> HyperResponse(500, <<>>, BodyInternalServerError)

\* handle with NotFound returned as the error it is
handle_not_found_err(rt, method, path) ==
    The({IF m.ok
         THEN [ok |-> TRUE, response |-> Handler(m.handler, m.params), err |-> NoError]
         ELSE IF m.err.kind = "NotFound"
              THEN [ok |-> FALSE, response |-> ErrorResponse(m.err), err |-> m.err]
              ELSE [ok |-> TRUE, response |-> ErrorResponse(m.err), err |-> NoError]
         : m \in {match_route(rt, method, path)}})

\* handle with the error of match_route passed on to the caller
handle_propagates(rt, method, path) ==
    The({IF m.ok
         THEN [ok |-> TRUE, response |-> Handler(m.handler, m.params), err |-> NoError]
         ELSE [ok |-> FALSE, response |-> ErrorResponse(m.err), err |-> m.err]
         : m \in {match_route(rt, method, path)}})

\* Router::handle: always Ok, with the handler's response or an error response
handle(rt, method, path) ==
    The({IF m.ok
         THEN [ok |-> TRUE, response |-> Handler(m.handler, m.params), err |-> NoError]
         ELSE [ok |-> TRUE, response |-> ErrorResponse(m.err), err |-> NoError]
         : m \in {match_route(rt, method, path)}})

(***************************************************************************)
(* Response and the wire encoder (src/src/response.rs)                     *)
(***************************************************************************)
MAX_HEADERS == 16

MsgOk == <<"O", "k">>

Line200 ==
    <<"H", "T", "T", "P", "/", "1", ".", "1", " ", "2", "0", "0", " ", "O", "k", "\r", "\n",
      "S", "e", "r", "v", "e", "r", ":", " ", "M", "\r", "\n", "D", "a", "t", "e", ":", " ">>

HttpVersion == <<"H", "T", "T", "P", "/", "1", ".", "1", " ">>

ServerDate ==
    <<"\r", "\n", "S", "e", "r", "v", "e", "r", ":", " ", "M", "\r", "\n", "D", "a", "t", "e",
      ":", " ">>

ContentLength ==
    <<"\r", "\n", "C", "o", "n", "t", "e", "n", "t", "-", "L", "e", "n", "g", "t", "h", ":",
      " ">>

CRLF == <<"\r", "\n">>

Line500 ==
    <<"H", "T", "T", "P", "/", "1", ".", "1", " ", "5", "0", "0", " ", "I", "n", "t", "e", "r",
      "n", "a", "l", " ", "S", "e", "r", "v", "e", "r", " ", "E", "r", "r", "o", "r", "\r",
      "\n", "S", "e", "r", "v", "e", "r", ":", " ", "M", "\r", "\n", "D", "a", "t", "e", ":",
      " ">>

InvalidMethodMsg == <<"I", "n", "v", "a", "l", "i", "d", " ", "m", "e", "t", "h", "o", "d">>

HdrServerKarics == <<"S", "e", "r", "v", "e", "r", ":", " ", "K", "a", "r", "i", "c", "s">>

HdrNoSniff ==
    <<"X", "-", "C", "o", "n", "t", "e", "n", "t", "-", "T", "y", "p", "e", "-", "O", "p", "t",
      "i", "o", "n", "s", ":", " ", "n", "o", "s", "n", "i", "f", "f">>

HdrFrameDeny ==
    <<"X", "-", "F", "r", "a", "m", "e", "-", "O", "p", "t", "i", "o", "n", "s", ":", " ", "D",
      "E", "N", "Y">>

HdrCtJson ==
    <<"C", "o", "n", "t", "e", "n", "t", "-", "T", "y", "p", "e", ":", " ", "a", "p", "p", "l",
      "i", "c", "a", "t", "i", "o", "n", "/", "j", "s", "o", "n">>

HdrCtPlain ==
    <<"C", "o", "n", "t", "e", "n", "t", "-", "T", "y", "p", "e", ":", " ", "t", "e", "x", "t",
      "/", "p", "l", "a", "i", "n">>

HdrCtHtml ==
    <<"C", "o", "n", "t", "e", "n", "t", "-", "T", "y", "p", "e", ":", " ", "t", "e", "x", "t",
      "/", "h", "t", "m", "l">>

HdrCtOctet ==
    <<"C", "o", "n", "t", "e", "n", "t", "-", "T", "y", "p", "e", ":", " ", "a", "p", "p", "l",
      "i", "c", "a", "t", "i", "o", "n", "/", "o", "c", "t", "e", "t", "-", "s", "t", "r", "e",
      "a", "m">>

MsgNotFound == <<"N", "o", "t", " ", "F", "o", "u", "n", "d">>

MsgMethodNotAllowed ==
    <<"M", "e", "t", "h", "o", "d", " ", "N", "o", "t", " ", "A", "l", "l", "o", "w", "e", "d">>

MsgInternalServerError ==
    <<"I", "n", "t", "e", "r", "n", "a", "l", " ", "S", "e", "r", "v", "e", "r", " ", "E", "r",
      "r", "o", "r">>

\* the date cache's current HTTP date (crate::date::append_date), by the tick
\* of its clock
DateA ==
    <<"T", "h", "u", ",", " ", "0", "1", " ", "J", "a", "n", " ", "1", "9", "7", "0", " ", "0",
      "0", ":", "0", "0", ":", "0", "0", " ", "G", "M", "T">>

DateB ==
    <<"T", "h", "u", ",", " ", "0", "1", " ", "J", "a", "n", " ", "1", "9", "7", "0", " ", "0",
      "0", ":", "0", "0", ":", "0", "1", " ", "G", "M", "T">>

Dates == {DateA, DateB}

append_date(buf, date) == buf \o date

RECURSIVE Repeat(_, _)
Repeat(x, n) == IF n = 0 THEN <<>> ELSE Append(Repeat(x, n - 1), x)

Body(kind, data) == [kind |-> kind, data |-> data]

\* Response::new: no headers, 200 "Ok", no body, over the connection's buffer.
\* panicked records that an operation on the response has panicked.
Response_new(rsp_buf) ==
    [headers |-> Repeat(<<>>, MAX_HEADERS), headers_len |-> 0,
     status_message |-> [code |-> 200, msg |-> MsgOk],
     body |-> Body("Dummy", <<>>), rsp_buf |-> rsp_buf, panicked |-> FALSE]

\* The operations on a response take self and give the response after the
\* call; on a response whose thread has panicked nothing runs any more.
status_code(self, code, msg) ==
    The({IF rsp.panicked THEN rsp
         ELSE [rsp EXCEPT !.status_message = [code |-> code, msg |-> msg]]
         : rsp \in {self}})

\* header with an unchecked store: at capacity nothing stops the count
header_unchecked(self, h) ==
    The({IF rsp.panicked THEN rsp
         ELSE IF rsp.headers_len >= Len(rsp.headers)
              THEN [rsp EXCEPT !.headers_len = rsp.headers_len + 1]
              ELSE [rsp EXCEPT !.headers[rsp.headers_len + 1] = h,
                               !.headers_len = rsp.headers_len + 1]
         : rsp \in {self}})

\* Response::header: the indexed store panics on an index past the array
header(self, h) ==
    The({IF rsp.panicked THEN rsp
         ELSE IF rsp.headers_len >= Len(rsp.headers)
              THEN [rsp EXCEPT !.panicked = TRUE]
              ELSE [rsp EXCEPT !.headers[rsp.headers_len + 1] = h,
                               !.headers_len = rsp.headers_len + 1]
         : rsp \in {self}})

body(self, s) ==
    The({IF rsp.panicked THEN rsp ELSE [rsp EXCEPT !.body = Body("Str", s)]
         : rsp \in {self}})

body_vec(self, v) ==
    The({IF rsp.panicked THEN rsp ELSE [rsp EXCEPT !.body = Body("Vec", v)]
         : rsp \in {self}})

\* Response::body_mut: the body moves into the buffer, which the caller may
\* then write to
body_mut(self) ==
    The({IF rsp.panicked THEN rsp
         ELSE [rsp EXCEPT !.rsp_buf = IF rsp.body.kind = "Dummy" THEN @
                                      ELSE @ \o rsp.body.data,
                          !.body = Body("Dummy", <<>>)]
         : rsp \in {self}})

\* body_len with the buffer of a Dummy body left out
body_len_no_buffer(rsp) == IF rsp.body.kind = "Dummy" THEN 0 ELSE Len(rsp.body.data)

body_len(rsp) == IF rsp.body.kind = "Dummy" THEN Len(rsp.rsp_buf) ELSE Len(rsp.body.data)

get_body(rsp) == IF rsp.body.kind = "Dummy" THEN rsp.rsp_buf ELSE rsp.body.data

\* Drop for Response without the clear of the buffer
drop_keeps_buffer(rsp) == rsp

\* Drop for Response
drop(rsp) == [rsp EXCEPT !.rsp_buf = <<>>]

\* rsp.headers.get_unchecked(..rsp.headers_len): the slices the read can
\* give. Past the array it is undefined behaviour: the read may give the
\* array alone, or the array followed by whatever lies after it.
UncheckedHeaders(rsp) ==
    IF rsp.headers_len <= Len(rsp.headers)
    THEN {SubSeq(rsp.headers, 1, rsp.headers_len)}
    ELSE {rsp.headers,
          rsp.headers \o Repeat(<<>>, rsp.headers_len - Len(rsp.headers)),
          rsp.headers \o Repeat(<<"?">>, rsp.headers_len - Len(rsp.headers))}

RECURSIVE HeaderLines(_, _)
HeaderLines(hs, n) ==
    IF n > Len(hs) THEN <<>> ELSE CRLF \o hs[n] \o HeaderLines(hs, n + 1)

\* encode, with hs the header slice it read and date the date it stamped:
\* the output buffer after the call
encode(rsp, buf, hs, date) ==
    LET b1 == IF rsp.status_message.code = 200
              THEN buf \o Line200
              ELSE buf \o HttpVersion \o itoa(rsp.status_message.code) \o <<" ">>
                       \o rsp.status_message.msg \o ServerDate
        b2 == append_date(b1, date)
        b3 == b2 \o ContentLength \o itoa(body_len(rsp))
        b4 == b3 \o HeaderLines(hs, 1)
    IN b4 \o CRLF \o CRLF \o get_body(rsp)

\* encode_error, for an io::Error whose message is msg
encode_error(msg, buf, date) ==
    append_date(buf \o Line500, date) \o ContentLength \o itoa(Len(msg))
        \o CRLF \o CRLF \o msg

\* status_code_to_message of router.rs
status_code_to_message(code) ==
    CASE code = 100 -> <<"C", "o", "n", "t", "i", "n", "u", "e">>
      [] code = 101 -> <<"S", "w", "i", "t", "c", "h", "i", "n", "g", " ", "P", "r", "o", "t", "o", "c", "o", "l", "s">>
      [] code = 102 -> <<"P", "r", "o", "c", "e", "s", "s", "i", "n", "g">>
      [] code = 103 -> <<"E", "a", "r", "l", "y", " ", "H", "i", "n", "t", "s">>
      [] code = 200 -> <<"O", "K">>
      [] code = 201 -> <<"C", "r", "e", "a", "t", "e", "d">>
      [] code = 202 -> <<"A", "c", "c", "e", "p", "t", "e", "d">>
      [] code = 203 -> <<"N", "o", "n", "-", "A", "u", "t", "h", "o", "r", "i", "t", "a", "t", "i", "v", "e", " ", "I", "n", "f", "o", "r", "m", "a", "t", "i", "o", "n">>
      [] code = 204 -> <<"N", "o", " ", "C", "o", "n", "t", "e", "n", "t">>
      [] code = 205 -> <<"R", "e", "s", "e", "t", " ", "C", "o", "n", "t", "e", "n", "t">>
      [] code = 206 -> <<"P", "a", "r", "t", "i", "a", "l", " ", "C", "o", "n", "t", "e", "n", "t">>
      [] code = 207 -> <<"M", "u", "l", "t", "i", "-", "S", "t", "a", "t", "u", "s">>
      [] code = 208 -> <<"A", "l", "r", "e", "a", "d", "y", " ", "R", "e", "p", "o", "r", "t", "e", "d">>
      [] code = 226 -> <<"I", "M", " ", "U", "s", "e", "d">>
      [] code = 300 -> <<"M", "u", "l", "t", "i", "p", "l", "e", " ", "C", "h", "o", "i", "c", "e", "s">>
      [] code = 301 -> <<"M", "o", "v", "e", "d", " ", "P", "e", "r", "m", "a", "n", "e", "n", "t", "l", "y">>
      [] code = 302 -> <<"F", "o", "u", "n", "d">>
      [] code = 303 -> <<"S", "e", "e", " ", "O", "t", "h", "e", "r">>
      [] code = 304 -> <<"N", "o", "t", " ", "M", "o", "d", "i", "f", "i", "e", "d">>
      [] code = 305 -> <<"U", "s", "e", " ", "P", "r", "o", "x", "y">>
      [] code = 307 -> <<"T", "e", "m", "p", "o", "r", "a", "r", "y", " ", "R", "e", "d", "i", "r", "e", "c", "t">>
      [] code = 308 -> <<"P", "e", "r", "m", "a", "n", "e", "n", "t", " ", "R", "e", "d", "i", "r", "e", "c", "t">>
      [] code = 400 -> <<"B", "a", "d", " ", "R", "e", "q", "u", "e", "s", "t">>
      [] code = 401 -> <<"U", "n", "a", "u", "t", "h", "o", "r", "i", "z", "e", "d">>
      [] code = 402 -> <<"P", "a", "y", "m", "e", "n", "t", " ", "R", "e", "q", "u", "i", "r", "e", "d">>
      [] code = 403 -> <<"F", "o", "r", "b", "i", "d", "d", "e", "n">>
      [] code = 404 -> <<"N", "o", "t", " ", "F", "o", "u", "n", "d">>
      [] code = 405 -> <<"M", "e", "t", "h", "o", "d", " ", "N", "o", "t", " ", "A", "l", "l", "o", "w", "e", "d">>
      [] code = 406 -> <<"N", "o", "t", " ", "A", "c", "c", "e", "p", "t", "a", "b", "l", "e">>
      [] code = 407 -> <<"P", "r", "o", "x", "y", " ", "A", "u", "t", "h", "e", "n", "t", "i", "c", "a", "t", "i", "o", "n", " ", "R", "e", "q", "u", "i", "r", "e", "d">>
      [] code = 408 -> <<"R", "e", "q", "u", "e", "s", "t", " ", "T", "i", "m", "e", "o", "u", "t">>
      [] code = 409 -> <<"C", "o", "n", "f", "l", "i", "c", "t">>
      [] code = 410 -> <<"G", "o", "n", "e">>
      [] code = 411 -> <<"L", "e", "n", "g", "t", "h", " ", "R", "e", "q", "u", "i", "r", "e", "d">>
      [] code = 412 -> <<"P", "r", "e", "c", "o", "n", "d", "i", "t", "i", "o", "n", " ", "F", "a", "i", "l", "e", "d">>
      [] code = 413 -> <<"P", "a", "y", "l", "o", "a", "d", " ", "T", "o", "o", " ", "L", "a", "r", "g", "e">>
      [] code = 414 -> <<"U", "R", "I", " ", "T", "o", "o", " ", "L", "o", "n", "g">>
      [] code = 415 -> <<"U", "n", "s", "u", "p", "p", "o", "r", "t", "e", "d", " ", "M", "e", "d", "i", "a", " ", "T", "y", "p", "e">>
      [] code = 416 -> <<"R", "a", "n", "g", "e", " ", "N", "o", "t", " ", "S", "a", "t", "i", "s", "f", "i", "a", "b", "l", "e">>
      [] code = 417 -> <<"E", "x", "p", "e", "c", "t", "a", "t", "i", "o", "n", " ", "F", "a", "i", "l", "e", "d">>
      [] code = 418 -> <<"I", "'", "m", " ", "a", " ", "t", "e", "a", "p", "o", "t">>
      [] code = 421 -> <<"M", "i", "s", "d", "i", "r", "e", "c", "t", "e", "d", " ", "R", "e", "q", "u", "e", "s", "t">>
      [] code = 422 -> <<"U", "n", "p", "r", "o", "c", "e", "s", "s", "a", "b", "l", "e", " ", "C", "o", "n", "t", "e", "n", "t">>
      [] code = 423 -> <<"L", "o", "c", "k", "e", "d">>
      [] code = 424 -> <<"F", "a", "i", "l", "e", "d", " ", "D", "e", "p", "e", "n", "d", "e", "n", "c", "y">>
      [] code = 425 -> <<"T", "o", "o", " ", "E", "a", "r", "l", "y">>
      [] code = 426 -> <<"U", "p", "g", "r", "a", "d", "e", " ", "R", "e", "q", "u", "i", "r", "e", "d">>
      [] code = 428 -> <<"P", "r", "e", "c", "o", "n", "d", "i", "t", "i", "o", "n", " ", "R", "e", "q", "u", "i", "r", "e", "d">>
      [] code = 429 -> <<"T", "o", "o", " ", "M", "a", "n", "y", " ", "R", "e", "q", "u", "e", "s", "t", "s">>
      [] code = 431 -> <<"R", "e", "q", "u", "e", "s", "t", " ", "H", "e", "a", "d", "e", "r", " ", "F", "i", "e", "l", "d", "s", " ", "T", "o", "o", " ", "L", "a", "r", "g", "e">>
      [] code = 451 -> <<"U", "n", "a", "v", "a", "i", "l", "a", "b", "l", "e", " ", "F", "o", "r", " ", "L", "e", "g", "a", "l", " ", "R", "e", "a", "s", "o", "n", "s">>
      [] code = 500 -> <<"I", "n", "t", "e", "r", "n", "a", "l", " ", "S", "e", "r", "v", "e", "r", " ", "E", "r", "r", "o", "r">>
      [] code = 501 -> <<"N", "o", "t", " ", "I", "m", "p", "l", "e", "m", "e", "n", "t", "e", "d">>
      [] code = 502 -> <<"B", "a", "d", " ", "G", "a", "t", "e", "w", "a", "y">>
      [] code = 503 -> <<"S", "e", "r", "v", "i", "c", "e", " ", "U", "n", "a", "v", "a", "i", "l", "a", "b", "l", "e">>
      [] code = 504 -> <<"G", "a", "t", "e", "w", "a", "y", " ", "T", "i", "m", "e", "o", "u", "t">>
      [] code = 505 -> <<"H", "T", "T", "P", " ", "V", "e", "r", "s", "i", "o", "n", " ", "N", "o", "t", " ", "S", "u", "p", "p", "o", "r", "t", "e", "d">>
      [] code = 506 -> <<"V", "a", "r", "i", "a", "n", "t", " ", "A", "l", "s", "o", " ", "N", "e", "g", "o", "t", "i", "a", "t", "e", "s">>
      [] code = 507 -> <<"I", "n", "s", "u", "f", "f", "i", "c", "i", "e", "n", "t", " ", "S", "t", "o", "r", "a", "g", "e">>
      [] code = 508 -> <<"L", "o", "o", "p", " ", "D", "e", "t", "e", "c", "t", "e", "d">>
      [] code = 510 -> <<"N", "o", "t", " ", "E", "x", "t", "e", "n", "d", "e", "d">>
      [] code = 511 -> <<"N", "e", "t", "w", "o", "r", "k", " ", "A", "u", "t", "h", "e", "n", "t", "i", "c", "a", "t", "i", "o", "n", " ", "R", "e", "q", "u", "i", "r", "e", "d">>
      [] OTHER -> <<"U", "n", "k", "n", "o", "w", "n", " ", "S", "t", "a", "t", "u", "s", " ", "C", "o", "d", "e">>

(***************************************************************************)
(* ApiService (src/src/router.rs)                                          *)
(***************************************************************************)
\* HeaderValue::to_str: only a value of visible ASCII is a string
VisibleAscii ==
    UpperCase \cup LowerCase \cup Digits
    \cup {" ", "!", "#", "$", "%", "&", "'", "(", ")", "*", "+", ",", "-", ".", "/",
          ":", ";", "<", "=", ">", "?", "@", "[", "]", "^", "_", "{", "|", "}", "~"}

to_str(value) == \A n \in 1..Len(value) : value[n] \in VisibleAscii

ContentTypeHeader(ct_str) ==
    CASE ct_str = CtJson  -> HdrCtJson
      [] ct_str = CtPlain -> HdrCtPlain
      [] ct_str = CtHtml  -> HdrCtHtml
      [] OTHER            -> HdrCtOctet

NoIoError == [kind |-> "", msg |-> <<>>]

\* the Ok arm of call: the response of the router goes into rsp
call_ok(response, rsp) ==
    LET status == response.status
        ct == response.content_type
        r1 == status_code(rsp, status, status_code_to_message(status))
        r2 == header(header(header(r1, HdrServerKarics), HdrNoSniff), HdrFrameDeny)
        r3 == IF ct # <<>> /\ to_str(ct[1])
              THEN header(r2, ContentTypeHeader(ct[1]))
              ELSE r2
    IN [ok |-> TRUE, err |-> NoIoError, rsp |-> body_vec(r3, response.body)]

\* the Err arm of call: an error response for the RouterError goes into rsp
call_err(err, rsp) ==
    LET status == CASE err.kind = "NotFound" -> 404
                    [] err.kind = "MethodNotAllowed" -> 405
                    [] OTHER -> 500
        msg == CASE status = 404 -> MsgNotFound
                 [] status = 405 -> MsgMethodNotAllowed
                 [] OTHER -> MsgInternalServerError
        r1 == header(status_code(rsp, status, msg), HdrCtJson)
        r2 == CASE status = 404 -> body(r1, BodyNotFound)
                [] status = 405 -> body(r1, BodyMethodNotAllowed)
                [] OTHER -> body(r1, BodyInternalServerError)
    IN [ok |-> TRUE, err |-> NoIoError, rsp |-> r2]

\* ApiService::call on the request's method bytes and path: the io::Result
\* and the response it leaves in rsp
call(rt, req_method, req_path, rsp) ==
    The({IF ~method.ok
         THEN [ok |-> FALSE,
               err |-> [kind |-> "InvalidInput", msg |-> InvalidMethodMsg],
               rsp |-> rsp]
         ELSE The({IF r.ok THEN call_ok(r.response, rsp) ELSE call_err(r.err, rsp)
                   : r \in {handle(rt, method.method, req_path)}})
         : method \in {Method_from_bytes(req_method)}})

\* status_code_to_message of response.rs, which ResponseBuilder::body uses
response_status_code_to_message(code) ==
    CASE code = 200 -> MsgOk
      [] code = 400 -> <<"B", "a", "d", " ", "R", "e", "q", "u", "e", "s", "t">>
      [] code = 401 -> <<"U", "n", "a", "u", "t", "h", "o", "r", "i", "z", "e", "d">>
      [] code = 404 -> MsgNotFound
      [] code = 500 -> MsgInternalServerError
      [] OTHER -> <<"U", "n", "k", "n", "o", "w", "n">>

\* ResponseBuilder: its methods take self and give the builder back
ResponseBuilder_new == [status |-> 200, headers |-> <<>>, body |-> <<>>]

ResponseBuilder_status(self, code) == [self EXCEPT !.status = code]

ResponseBuilder_header(self, key, value) ==
    [self EXCEPT !.headers = Append(@, <<key, value>>)]

\* the loop of ResponseBuilder::body: key and value each go to header()
RECURSIVE BuilderHeaders(_, _, _)
BuilderHeaders(response, headers, n) ==
    IF n > Len(headers) THEN response
    ELSE BuilderHeaders(header(header(response, headers[n][1]), headers[n][2]),
                        headers, n + 1)

\* ResponseBuilder::body: the Response it builds, on a buffer of its own
ResponseBuilder_body(self, b) ==
    LET r1 == status_code(Response_new(<<>>), self.status,
                          response_status_code_to_message(self.status))
    IN body_vec(BuilderHeaders(r1, self.headers, 1), b)

\* ApiService::new with no router of its own handed to it
ApiService_new_empty(router) == [router |-> Router_new]

\* ApiService::new: the service holds the Arc of the router it is given
ApiService_new(router) == [router |-> router]

\* HttpServiceFactory::new_service: a clone of the factory's Arc
new_service(factory_router, id) == ApiService_new(factory_router)

(***************************************************************************)
(* The inputs the operations are called with.                              *)
(***************************************************************************)
MaxRoutes == 2

\* pattern texts: /users, /users/(\d+) with an optional trailing group, a
\* text with a regex metacharacter, and a text that does not compile
PatUsers == <<"/", "u">>

PatUserId == <<"/", "u", "/", "(", "\\", "d", "+", ")", "(", "x", ")", "?">>

PatDot == <<"/", ".">>

PatOpen == <<"(">>

PathUsers == <<"/", "u">>

PathUser42 == <<"/", "u", "/", "4", "2">>

PathUser4x == <<"/", "u", "/", "4", "x">>

PathOther == <<"/", "x", "/", "u">>

BadMethodSpace == <<"G", " ", "T">>

\* the (pattern, match_type) pairs route() is called with
RouteInputs ==
    {<<PatUsers, "Regex">>, <<PatUserId, "Regex">>, <<PatUsers, "Exact">>,
     <<PatUsers, "Prefix">>, <<PatDot, "Exact">>,
     <<PatOpen, "Regex">>, <<PatOpen, "Exact">>, <<PatOpen, "Prefix">>}

\* the methods route() is called with
RouteMethods == {GET, POST}

\* the patterns get() and post() are called with
GetPatterns == {PatUsers, PatUserId, PatOpen}

\* the patterns put(), delete(), patch(), head() and options() are called with
OtherPatterns == {PatUsers, PatOpen}

\* the method slices any() is called with
AnyMethods == {<<>>, <<GET, POST>>, <<PUT, GET>>}

Paths == {<<>>, PathUsers, PathUser42, PathUser4x, PathOther}

\* the methods of requests: TRACE is never registered
Methods == {GET, POST, PUT, DELETE, PATCH, HEAD, OPTIONS, TRACE}

\* the method bytes of requests reaching ApiService::call
RequestMethods == Methods \cup {<<>>, BadMethodSpace}

\* the bounds of the response specification: header() calls per response and
\* bytes in the response's buffer
MaxHeaderCalls == 2

MaxBodyBuf == 3

MsgOK == <<"O", "K">>

BodyOK == <<"O", "K">>

BodyHi == <<"h", "i", "!">>

WriteXy == <<"x", "y">>

\* the (code, msg) pairs status_code() is called with
StatusInputs == {<<200, MsgOK>>, <<404, MsgNotFound>>}

\* the header lines header() is called with
HeaderInputs == {HdrCtJson, HdrNoSniff}

\* the static strings body() is called with
BodyStrInputs == {BodyOK, BodyNotFound}

\* the vectors body_vec() is called with
BodyVecInputs == {<<>>, BodyHi}

\* the bytes a caller writes to the buffer body_mut() returns
BodyMutWrites == {<<>>, WriteXy}

VARIABLES
    routes,       \* Router.routes: method -> the routes registered under it
    registered,   \* history: the successful registrations, in order
    last,         \* the call that has just returned: its arguments and result
    rsp,          \* the Response being built
    buf,          \* the connection's output buffer
    sent,         \* history: the last response handed to encode, and its date
    conns         \* the connections of the server, each with its Service

vars == <<routes, registered, last, rsp, buf, sent, conns>>

NoCall == [op |-> "none", method |-> <<>>, path |-> <<>>, pattern |-> <<>>,
           match_type |-> "", res |-> [ok |-> TRUE]]

NoSent == [rsp |-> Response_new(<<>>), date |-> <<>>, hs |-> <<>>, before |-> <<>>]

Init ==
    /\ routes = Router_new
    /\ registered = <<>>
    /\ last = NoCall
    /\ rsp = Response_new(<<>>)
    /\ buf = <<>>
    /\ sent = NoSent
    /\ conns = <<>>

\* the handler closure of the next registration: a new one each time
RECURSIVE MaxHandler(_)
MaxHandler(regs) ==
    IF regs = <<>> THEN 0
    ELSE LET m == MaxHandler(Tail(regs)) IN
         IF Head(regs).handler > m THEN Head(regs).handler ELSE m

NextHandler == MaxHandler(registered) + 1

Registration(method, pattern, match_type, handler) ==
    [method |-> method, pattern |-> pattern, match_type |-> match_type,
     handler |-> handler]

\* the caller holds no result: it is about to make its next call
Idle == last.op = "none"

\* a call of route(method, pattern, match_type, handler) and its effect
Registers(op, method, pattern, match_type, r) ==
    /\ Idle
    /\ routes' = r.routes
    /\ registered' = IF r.ok
                     THEN Append(registered,
                                 Registration(method, pattern, match_type, NextHandler))
                     ELSE registered
    /\ last' = [op |-> op, method |-> method, path |-> <<>>, pattern |-> pattern,
                match_type |-> match_type, res |-> [ok |-> r.ok, err |-> r.err]]
    /\ UNCHANGED <<conns, rsp, buf, sent>>

Route ==
    \E method \in RouteMethods, in \in RouteInputs :
        /\ Len(registered) < MaxRoutes
        /\ Registers("route", method, in[1], in[2],
                     route(routes, method, in[1], in[2], NextHandler))

\* the registrations any() made: one per method, when the pattern compiles
RECURSIVE AnyRegistrations(_, _, _)
AnyRegistrations(methods, pattern, handler) ==
    IF methods = <<>> THEN <<>>
    ELSE <<Registration(Head(methods), pattern, "Regex", handler)>>
         \o AnyRegistrations(Tail(methods), pattern, handler)

AnyRoute ==
    \E methods \in AnyMethods, pattern \in OtherPatterns :
        /\ Idle
        /\ Len(registered) + Len(methods) <= MaxRoutes
        /\ LET r == any(routes, methods, pattern, NextHandler) IN
           /\ routes' = r.routes
           /\ registered' = IF r.ok
                            THEN registered
                                 \o AnyRegistrations(methods, pattern, NextHandler)
                            ELSE registered
           /\ last' = [op |-> "any", method |-> methods, path |-> <<>>,
                       pattern |-> pattern, match_type |-> "Regex",
                       res |-> [ok |-> r.ok, err |-> r.err]]
        /\ UNCHANGED <<conns, rsp, buf, sent>>

Get ==
    \E pattern \in GetPatterns :
        /\ Len(registered) < MaxRoutes
        /\ Registers("get", GET, pattern, "Regex", get(routes, pattern, NextHandler))

Post ==
    \E pattern \in GetPatterns :
        /\ Len(registered) < MaxRoutes
        /\ Registers("post", POST, pattern, "Regex", post(routes, pattern, NextHandler))

Put ==
    \E pattern \in OtherPatterns :
        /\ Len(registered) < MaxRoutes
        /\ Registers("put", PUT, pattern, "Regex", put(routes, pattern, NextHandler))

Delete ==
    \E pattern \in OtherPatterns :
        /\ Len(registered) < MaxRoutes
        /\ Registers("delete", DELETE, pattern, "Regex",
                     delete(routes, pattern, NextHandler))

Patch ==
    \E pattern \in OtherPatterns :
        /\ Len(registered) < MaxRoutes
        /\ Registers("patch", PATCH, pattern, "Regex",
                     patch(routes, pattern, NextHandler))

Head_ ==
    \E pattern \in OtherPatterns :
        /\ Len(registered) < MaxRoutes
        /\ Registers("head", HEAD, pattern, "Regex", head(routes, pattern, NextHandler))

Options ==
    \E pattern \in OtherPatterns :
        /\ Len(registered) < MaxRoutes
        /\ Registers("options", OPTIONS, pattern, "Regex",
                     options(routes, pattern, NextHandler))

MatchRoute ==
    \E method \in Methods, path \in Paths :
        /\ Idle
        /\ last' = [op |-> "match_route", method |-> method, path |-> path,
                    pattern |-> <<>>, match_type |-> "",
                    res |-> match_route(routes, method, path)]
        /\ UNCHANGED <<conns, routes, registered, rsp, buf, sent>>

Handle ==
    \E method \in Methods, path \in Paths :
        /\ Idle
        /\ last' = [op |-> "handle", method |-> method, path |-> path,
                    pattern |-> <<>>, match_type |-> "",
                    res |-> handle(routes, method, path)]
        /\ UNCHANGED <<conns, routes, registered, rsp, buf, sent>>

\* one request through ApiService::call, into a new Response
Call ==
    \E method \in RequestMethods, path \in Paths :
        /\ Idle
        /\ last' = [op |-> "call", method |-> method, path |-> path,
                    pattern |-> <<>>, match_type |-> "",
                    res |-> call(routes, method, path, Response_new(<<>>))]
        /\ UNCHANGED <<conns, routes, registered, rsp, buf, sent>>

\* the caller takes the result of its call and goes on
Return ==
    /\ ~Idle
    /\ last' = NoCall
    /\ UNCHANGED <<conns, routes, registered, rsp, buf, sent>>

Next ==
    \/ Route \/ AnyRoute \/ Get \/ Post \/ Put \/ Delete \/ Patch \/ Head_ \/ Options
    \/ MatchRoute \/ Handle \/ Call \/ Return

Spec == Init /\ [][Next]_vars

(***************************************************************************)
(* The life of one connection's Response: the transport makes it over the  *)
(* connection's buffer, the application builds it, encode consumes it.     *)
(***************************************************************************)
\* the response can be built on: it is not consumed and its thread runs
Building == last.op # "encode" /\ ~rsp.panicked

\* an operation op(arg) on the response: the call and the response before it
RspCall(op, arg) ==
    [op |-> op, method |-> <<>>, path |-> <<>>, pattern |-> arg, match_type |-> "",
     res |-> [ok |-> TRUE, before |-> rsp]]

\* what the output buffer holds when the next request is handled: nothing, or
\* an earlier response that the transport has not written out yet
PendingOutputs == {<<>>, encode_error(InvalidMethodMsg, <<>>, DateA)}

\* Response::new for the next request, once the last response is consumed
RspNew ==
    /\ last.op = "encode"
    /\ rsp' = Response_new(rsp.rsp_buf)
    /\ last' = RspCall("new", <<>>)
    /\ buf' \in PendingOutputs
    /\ sent' = NoSent
    /\ UNCHANGED <<conns, routes, registered>>

RspStatusCode ==
    \E in \in StatusInputs :
        /\ Building
        /\ rsp' = status_code(rsp, in[1], in[2])
        /\ last' = RspCall("status_code", in[2])
        /\ UNCHANGED <<conns, routes, registered, buf, sent>>

\* header(h) for a line of lines, on a response with fewer than max headers
RspHeader(lines, max) ==
    \E h \in lines :
        /\ Building
        /\ rsp.headers_len < max
        /\ rsp' = header(rsp, h)
        /\ last' = RspCall("header", h)
        /\ UNCHANGED <<conns, routes, registered, buf, sent>>

RspBody ==
    \E s \in BodyStrInputs :
        /\ Building
        /\ rsp' = body(rsp, s)
        /\ last' = RspCall("body", s)
        /\ UNCHANGED <<conns, routes, registered, buf, sent>>

RspBodyVec ==
    \E v \in BodyVecInputs :
        /\ Building
        /\ rsp' = body_vec(rsp, v)
        /\ last' = RspCall("body_vec", v)
        /\ UNCHANGED <<conns, routes, registered, buf, sent>>

\* body_mut(), and the caller's write to the buffer it returns
RspBodyMut ==
    \E w \in BodyMutWrites :
        /\ Building
        /\ Len(body_mut(rsp).rsp_buf) + Len(w) <= MaxBodyBuf
        /\ rsp' = [body_mut(rsp) EXCEPT !.rsp_buf = @ \o w]
        /\ last' = RspCall("body_mut", w)
        /\ UNCHANGED <<conns, routes, registered, buf, sent>>

\* encode(rsp, buf): it consumes the response, which is dropped at its end
Encode ==
    \E date \in Dates, hs \in UncheckedHeaders(rsp) :
        /\ Building
        /\ buf' = encode(rsp, buf, hs, date)
        /\ rsp' = drop(rsp)
        /\ sent' = [rsp |-> rsp, date |-> date, hs |-> hs, before |-> buf]
        /\ last' = RspCall("encode", <<>>)
        /\ UNCHANGED <<conns, routes, registered>>

NextResp ==
    \/ RspNew \/ RspStatusCode \/ RspHeader(HeaderInputs, MaxHeaderCalls)
    \/ RspBody \/ RspBodyVec \/ RspBodyMut \/ Encode

SpecResp == Init /\ [][NextResp]_vars

\* the same with one header line, added until the header array is full
NextCap ==
    \/ RspNew \/ RspStatusCode \/ RspHeader({HdrNoSniff}, MAX_HEADERS + 1)
    \/ RspBody \/ RspBodyVec \/ Encode

SpecCap == Init /\ [][NextCap]_vars

(***************************************************************************)
(* The two ways to a reason phrase from a numeric code: ApiService::call   *)
(* for the response of a handler, and ResponseBuilder.                     *)
(***************************************************************************)
MaxBuilderHeaders == 1

StatusCodes == {200, 201, 404, 500, 299, 799}

HdrKeyContentType == <<"C", "o", "n", "t", "e", "n", "t", "-", "T", "y", "p", "e">>

BuilderHeaderInputs == {<<HdrKeyContentType, CtPlain>>}

AtRest == last.op \in {"none", "new"}

BuilderCall(op, builder) ==
    [op |-> op, method |-> <<>>, path |-> <<>>, pattern |-> <<>>, match_type |-> "",
     res |-> [ok |-> TRUE, builder |-> builder]]

InBuilder ==
    last.op \in {"ResponseBuilder_new", "ResponseBuilder_status", "ResponseBuilder_header"}

BuilderNew ==
    /\ AtRest
    /\ last' = BuilderCall("ResponseBuilder_new", ResponseBuilder_new)
    /\ UNCHANGED <<conns, routes, registered, rsp, buf, sent>>

BuilderStatus ==
    \E code \in StatusCodes :
        /\ InBuilder
        /\ last' = BuilderCall("ResponseBuilder_status",
                               ResponseBuilder_status(last.res.builder, code))
        /\ UNCHANGED <<conns, routes, registered, rsp, buf, sent>>

BuilderHeader ==
    \E h \in BuilderHeaderInputs :
        /\ InBuilder
        /\ Len(last.res.builder.headers) < MaxBuilderHeaders
        /\ last' = BuilderCall("ResponseBuilder_header",
                               ResponseBuilder_header(last.res.builder, h[1], h[2]))
        /\ UNCHANGED <<conns, routes, registered, rsp, buf, sent>>

BuilderBody ==
    \E b \in BodyVecInputs :
        /\ InBuilder
        /\ rsp' = ResponseBuilder_body(last.res.builder, b)
        /\ last' = [BuilderCall("ResponseBuilder_body", last.res.builder)
                        EXCEPT !.pattern = b]
        /\ UNCHANGED <<conns, routes, registered, buf, sent>>

\* the Ok arm of ApiService::call for a handler's response of any status
CallOk ==
    \E code \in StatusCodes, b \in BodyVecInputs :
        /\ AtRest
        /\ rsp' = call_ok(HyperResponse(code, <<>>, b), Response_new(<<>>)).rsp
        /\ last' = [BuilderCall("call_ok", ResponseBuilder_status(ResponseBuilder_new, code))
                        EXCEPT !.pattern = b]
        /\ UNCHANGED <<conns, routes, registered, buf, sent>>

Resolved == last.op \in {"ResponseBuilder_body", "call_ok"}

EncodeResolved == Resolved /\ Encode

NextReason ==
    \/ BuilderNew \/ BuilderStatus \/ BuilderHeader \/ BuilderBody
    \/ CallOk \/ EncodeResolved \/ RspNew

SpecReason == Init /\ [][NextReason]_vars

(***************************************************************************)
(* One connection: the transport loop makes a Response on the connection's *)
(* body buffer for each request, calls the service, and encodes the        *)
(* response, or the error of the service, into the output buffer.          *)
(***************************************************************************)
\* the router of examples/user.rs, as the server publishes it
ExampleRouter == get(get(Router_new, PatUsers, 1).routes, PatUserId, 2).routes

ExampleRegistered ==
    <<Registration(GET, PatUsers, "Regex", 1), Registration(GET, PatUserId, "Regex", 2)>>

InitServing ==
    /\ routes = ExampleRouter
    /\ registered = ExampleRegistered
    /\ last = NoCall
    /\ rsp = Response_new(<<>>)
    /\ buf = <<>>
    /\ sent = NoSent
    /\ conns = <<>>

\* the error of a service that fails after it has begun its response
IoErrorMsg == <<"e", "o", "f">>

\* the request is over: its response, or its error, has been encoded
Answered == last.op \in {"encode", "encode_error"}

\* the service has returned Err
ConnFailed == last.op = "call" /\ ~last.res.ok

\* the service is at work on the response
ConnServing == ~Answered /\ ~ConnFailed

\* the bytes that may wait in the output buffer when the next request is read
MaxPending == 90

\* the next request: a Response on the body buffer, as the last one left it;
\* the transport has written the output buffer out, or the next request
\* arrived before it did
ConnNew ==
    /\ Answered
    /\ rsp' = Response_new(rsp.rsp_buf)
    /\ buf' \in {<<>>} \cup (IF Len(buf) <= MaxPending THEN {buf} ELSE {})
    /\ sent' = NoSent
    /\ last' = RspCall("new", <<>>)
    /\ UNCHANGED <<conns, routes, registered>>

\* ApiService::call on the new response
ConnCall ==
    \E method \in RequestMethods, path \in Paths :
        /\ last.op \in {"none", "new"}
        /\ LET r == call(routes, method, path, rsp) IN
           /\ rsp' = r.rsp
           /\ last' = [op |-> "call", method |-> method, path |-> path,
                       pattern |-> <<>>, match_type |-> "",
                       res |-> [ok |-> r.ok, err |-> r.err]]
        /\ UNCHANGED <<conns, routes, registered, buf, sent>>

\* a service that answers through the Response itself
ConnService ==
    /\ ConnServing
    /\ \/ RspStatusCode \/ RspHeader(HeaderInputs, MaxHeaderCalls)
       \/ RspBody \/ RspBodyVec \/ RspBodyMut

\* the service returned Ok: encode
ConnEncode == ConnServing /\ Encode

\* the service returned Err: encode_error, and the Response is dropped
ConnEncodeError ==
    \E date \in Dates :
        /\ ~Answered
        /\ ~rsp.panicked
        /\ buf' = encode_error(IF ConnFailed THEN last.res.err.msg ELSE IoErrorMsg,
                               buf, date)
        /\ rsp' = drop(rsp)
        /\ sent' = [rsp |-> rsp, date |-> date, hs |-> <<>>, before |-> buf]
        /\ last' = RspCall("encode_error",
                           IF ConnFailed THEN last.res.err.msg ELSE IoErrorMsg)
        /\ UNCHANGED <<conns, routes, registered>>

NextConn ==
    \/ ConnNew \/ ConnCall \/ ConnService \/ ConnEncode \/ ConnEncodeError

SpecConn == InitServing /\ [][NextConn]_vars

(***************************************************************************)
(* Several connections, each with the Service that new_service made for it *)
(* from the one router of the factory, their requests interleaved. A       *)
(* request goes through ApiService::call in its steps: the method is       *)
(* parsed, the router handles the request (the handler runs), the response *)
(* is written.                                                             *)
(***************************************************************************)
MaxConns == 2

Conns == 1..MaxConns

ConcMethods == {GET, POST, BadMethodSpace}

ConcPaths == {PathUsers, PathUser42, PathOther}

NoService == [router |-> Router_new]

NoResponse == HyperResponse(0, <<>>, <<>>)

NoResult == [ok |-> TRUE, err |-> NoIoError]

ClosedConn ==
    [pc |-> "closed", service |-> NoService, method |-> <<>>, path |-> <<>>,
     response |-> NoResponse, res |-> NoResult, rsp |-> Response_new(<<>>)]

InitConc ==
    /\ routes = ExampleRouter
    /\ registered = ExampleRegistered
    /\ last = NoCall
    /\ rsp = Response_new(<<>>)
    /\ buf = <<>>
    /\ sent = NoSent
    /\ conns = [c \in Conns |-> ClosedConn]

\* a connection is accepted and gets its Service
ConcAccept(c) ==
    /\ conns[c].pc = "closed"
    /\ conns' = [conns EXCEPT ![c] = [ClosedConn EXCEPT !.pc = "idle",
                                         !.service = new_service(routes, c)]]
    /\ UNCHANGED <<routes, registered, last, rsp, buf, sent>>

\* call begins on a new Response: Method::from_bytes, and Err when it fails
ConcBegin(c) ==
    \E req_method \in ConcMethods, req_path \in ConcPaths :
        /\ conns[c].pc = "idle"
        /\ LET method == Method_from_bytes(req_method) IN
           conns' = [conns EXCEPT ![c] =
                        IF method.ok
                        THEN [@ EXCEPT !.pc = "routing", !.method = req_method,
                                       !.path = req_path]
                        ELSE [@ EXCEPT !.pc = "done", !.method = req_method,
                                       !.path = req_path,
                                       !.res = [ok |-> FALSE,
                                                err |-> [kind |-> "InvalidInput",
                                                         msg |-> InvalidMethodMsg]]]]
        /\ UNCHANGED <<routes, registered, last, rsp, buf, sent>>

\* self.router.handle(&method, req.path()): the handler runs and returns
ConcHandle(c) ==
    /\ conns[c].pc = "routing"
    /\ conns' = [conns EXCEPT ![c] =
                    [@ EXCEPT !.pc = "writing",
                              !.response = handle(conns[c].service.router,
                                                  Method_from_bytes(conns[c].method).method,
                                                  conns[c].path).response]]
    /\ UNCHANGED <<routes, registered, last, rsp, buf, sent>>

\* the Ok arm of call: the response goes into rsp
ConcWrite(c) ==
    /\ conns[c].pc = "writing"
    /\ LET r == call_ok(conns[c].response, conns[c].rsp) IN
       conns' = [conns EXCEPT ![c] =
                    [@ EXCEPT !.pc = "done", !.rsp = r.rsp,
                              !.res = [ok |-> r.ok, err |-> r.err]]]
    /\ UNCHANGED <<routes, registered, last, rsp, buf, sent>>

\* the request is answered; the connection waits for its next request
ConcNext(c) ==
    /\ conns[c].pc = "done"
    /\ conns' = [conns EXCEPT ![c] = [ClosedConn EXCEPT !.pc = "idle",
                                         !.service = conns[c].service]]
    /\ UNCHANGED <<routes, registered, last, rsp, buf, sent>>

NextConc ==
    \E c \in Conns :
        \/ ConcAccept(c) \/ ConcBegin(c) \/ ConcHandle(c) \/ ConcWrite(c) \/ ConcNext(c)

SpecConc == InitConc /\ [][NextConc]_vars

(***************************************************************************)
(* The claims about the router and the service, under Spec.                *)
(***************************************************************************)
Min(S) == CHOOSE x \in S : \A y \in S : x <= y

\* the expression a registration compiled
RegisteredRegex(e) == Regex_new(RegexPattern(e.pattern, e.match_type)).re

\* the registrations under method, in order of registration
RegisteredUnder(method) ==
    {n \in 1..Len(registered) : registered[n].method = method}

\* those of them whose pattern matches path
Candidates(method, path) ==
    {n \in RegisteredUnder(method) :
        Captures(RegisteredRegex(registered[n]), path).some}

\* the registration match_route(method, path) is to choose: the earliest
Earliest(method, path) == registered[Min(Candidates(method, path))]

Matched == last.op = "match_route" /\ last.res.ok

\* C1: match_route called with an empty path fails with InvalidPath, whatever
\* the method and the routing table (never MethodNotAllowed, NotFound or a
\* match).
C1_EmptyPathIsInvalidPath ==
    (last.op = "match_route" /\ last.path = <<>>)
        => (~last.res.ok /\ last.res.err = RouterError("InvalidPath", <<>>))

\* the text of group g of the pattern re in its match of path, empty for a
\* group that took no part
GroupText(re, path, g) ==
    LET span == Captures(re, path).spans[g + 1] IN
    IF span = NoSpan THEN <<>> ELSE SpanText(path, span)

\* C2: the params of a successful match_route have exactly one entry per
\* capturing group of the matched pattern, in group order, with no entry for
\* the whole match, and the empty string for a group that took no part.
C2_ParamsAreTheGroups ==
    Matched =>
        LET re == RegisteredRegex(Earliest(last.method, last.path)) IN
        /\ Len(last.res.params) = re.ngroups
        /\ \A g \in 1..re.ngroups :
              last.res.params[g] = GroupText(re, last.path, g)

C4_MethodNotAllowedNotNotFound ==
    last.op = "match_route" =>
        /\ (last.path # <<>> /\ RegisteredUnder(last.method) = {})
              => (~last.res.ok
                  /\ last.res.err = RouterError("MethodNotAllowed", last.method))
        /\ (~last.res.ok /\ last.res.err.kind = "NotFound")
              => (/\ RegisteredUnder(last.method) # {}
                  /\ Candidates(last.method, last.path) = {})

\* a method without routes is asked for, in a router that has routes
C4_NoRouteWitness ==
    /\ last.op = "match_route"
    /\ last.path # <<>>
    /\ registered # <<>>
    /\ RegisteredUnder(last.method) = {}
    /\ last.res.err.kind = "MethodNotAllowed"

\* re matches the whole of s, from its first to its last character
FullMatch(re, s) ==
    LET ms == Matches(re.node, s, 1, NoCaps(re.ngroups)) IN
    \E n \in 1..Len(ms) : ms[n].i = Len(s) + 1

\* C5: a route registered in Regex mode matches a path only when its pattern
\* matches the whole path.
C5_RegexModeIsAnchored ==
    (Matched /\ Earliest(last.method, last.path).match_type = "Regex")
        => FullMatch(RegisteredRegex(Earliest(last.method, last.path)), last.path)

\* the outcome of routing as the claims have it: InvalidPath for an empty
\* path, else the outcome of match_route
ClaimedOutcome(method, path) ==
    IF path = <<>>
    THEN [ok |-> FALSE, handler |-> 0, params |-> <<>>,
          err |-> RouterError("InvalidPath", <<>>)]
    ELSE match_route(routes, method, path)

\* C6: handle returns the matched handler's response on a match, a 404 on
\* NotFound, a 405 on MethodNotAllowed, a 400 on InvalidPath and a 500 on any
\* other error, each error with its JSON body.
C6_HandleMapsOutcomes ==
    last.op = "handle" =>
        LET m == ClaimedOutcome(last.method, last.path)
            response == last.res.response
        IN /\ last.res.ok
           /\ CASE m.ok -> response = Handler(m.handler, m.params)
                [] m.err.kind = "NotFound" ->
                     response = HyperResponse(404, <<>>, BodyNotFound)
                [] m.err.kind = "MethodNotAllowed" ->
                     response = HyperResponse(405, <<>>, BodyMethodNotAllowed)
                [] m.err.kind = "InvalidPath" -> response.status = 400
                [] OTHER ->
                     response = HyperResponse(500, <<>>, BodyInternalServerError)

\* the method bytes of a request are no HTTP token
Malformed(method) ==
    method = <<>> \/ \E n \in 1..Len(method) : method[n] \notin MethodChars

\* C7 as claimed: call returns Ok with an error response for a request whose
\* method is malformed or whose path matches no route.
C7_CallAlwaysOk ==
    (/\ last.op = "call"
     /\ Malformed(last.method) \/ Candidates(last.method, last.path) = {})
        => (last.res.ok /\ last.res.rsp.status_message.code >= 400)

\* the response call leaves for status and body, on a new Response
ServiceResponse(status, msg, data) ==
    [Response_new(<<>>) EXCEPT
        !.status_message = [code |-> status, msg |-> msg],
        !.headers = <<HdrServerKarics, HdrNoSniff, HdrFrameDeny>>
                    \o Repeat(<<>>, MAX_HEADERS - 3),
        !.headers_len = 3,
        !.body = Body("Vec", data)]

\* C7, amended: call returns Err (InvalidInput) exactly for a malformed
\* method, and then leaves the response untouched; for a well-formed method
\* it returns Ok, with the 405 response when the method has no route and the
\* 404 response when it has routes and none matches the path.
C7_CallErrsOnlyOnMalformedMethod ==
    last.op = "call" =>
        IF Malformed(last.method)
        THEN /\ ~last.res.ok
             /\ last.res.err = [kind |-> "InvalidInput", msg |-> InvalidMethodMsg]
             /\ last.res.rsp = Response_new(<<>>)
        ELSE /\ last.res.ok
             /\ Candidates(last.method, last.path) = {} =>
                   last.res.rsp =
                     IF RegisteredUnder(last.method) = {}
                     THEN ServiceResponse(405, MsgMethodNotAllowed, BodyMethodNotAllowed)
                     ELSE ServiceResponse(404, MsgNotFound, BodyNotFound)

\* a request with a malformed method has been refused
C7_MalformedWitness ==
    last.op = "call" /\ Malformed(last.method) /\ ~last.res.ok

(***************************************************************************)
(* The claims about the wire encoder, under SpecResp and SpecCap.          *)
(***************************************************************************)
\* the bytes the last encode appended to the output buffer
Appended == SubSeq(buf, Len(sent.before) + 1, Len(buf))

\* the first index from k on at which sub occurs in s, 0 when there is none
FindSub(s, sub, k) ==
    LET hits == {n \in k..(Len(s) - Len(sub) + 1) :
                    SubSeq(s, n, n + Len(sub) - 1) = sub}
    IN IF hits = {} THEN 0 ELSE Min(hits)

DigitValue(c) == CHOOSE d \in 0..9 : DigitChar(d) = c

\* the decimal number that starts at index k of s: its value so far is acc
RECURSIVE Atoi(_, _, _)
Atoi(s, k, acc) ==
    IF k > Len(s) \/ s[k] \notin Digits THEN acc
    ELSE Atoi(s, k + 1, 10 * acc + DigitValue(s[k]))

\* the value of the Content-Length header in the bytes out, -1 without one
ContentLengthValue(out) ==
    LET k == FindSub(out, ContentLength, 1) IN
    IF k = 0 \/ k + Len(ContentLength) > Len(out)
       \/ out[k + Len(ContentLength)] \notin Digits
    THEN -1
    ELSE Atoi(out, k + Len(ContentLength), 0)

\* the bytes after the first blank line of out
AfterBlankLine(out) ==
    SubSeq(out, FindSub(out, CRLF \o CRLF, 1) + 4, Len(out))

\* the body bytes of a response: the buffer for a Dummy body, else its data
BodyBytes(r) == IF r.body.kind = "Dummy" THEN r.rsp_buf ELSE r.body.data

\* C8: whatever the body variant, status and headers of the response, the
\* decimal value of the Content-Length header that encode writes is the
\* number of bytes it appends after the blank line, and those bytes are the
\* body bytes.
C8_ContentLengthIsExact ==
    last.op = "encode" =>
        /\ FindSub(Appended, CRLF \o CRLF, 1) > 0
        /\ ContentLengthValue(Appended) = Len(AfterBlankLine(Appended))
        /\ AfterBlankLine(Appended) = BodyBytes(sent.rsp)

\* a response with headers and a body written through body_mut is encoded
\* after bytes that were in the output buffer already
C8_BufferBodyWitness ==
    /\ last.op = "encode"
    /\ sent.rsp.body.kind = "Dummy"
    /\ sent.rsp.rsp_buf # <<>>
    /\ sent.rsp.headers_len > 0
    /\ sent.before # <<>>

\* the caller's header lines of r, in the order they were added
RECURSIVE CallerLines(_, _)
CallerLines(r, n) ==
    IF n > r.headers_len THEN <<>>
    ELSE CRLF \o r.headers[n] \o CallerLines(r, n + 1)

\* the bytes of response r as the claim has them, stamped with date
ClaimedWire(r, date) ==
    HttpVersion \o itoa(r.status_message.code) \o <<" ">> \o r.status_message.msg
    \o ServerDate \o date
    \o ContentLength \o itoa(Len(BodyBytes(r)))
    \o CallerLines(r, 1)
    \o CRLF \o CRLF \o BodyBytes(r)

\* C9: encode appends the status line HTTP/1.1 <code> <reason> with the
\* reason that was set (also for code 200), then the Server header, the Date
\* header, Content-Length, the caller's header lines in the order they were
\* added, a blank line and the body.
C9_StatusLineAndOrder ==
    last.op = "encode" => Appended = ClaimedWire(sent.rsp, sent.date)

\* C10: the header count never exceeds the capacity; header() called at
\* capacity panics and leaves the stored headers and the count alone; the
\* slice encode reads is the first headers_len entries of the array.
C10_HeaderCountWithinCapacity ==
    /\ rsp.headers_len <= MAX_HEADERS
    /\ Len(rsp.headers) = MAX_HEADERS
    /\ (last.op = "header" /\ last.res.before.headers_len = MAX_HEADERS)
          => /\ rsp.panicked
             /\ rsp.headers = last.res.before.headers
             /\ rsp.headers_len = MAX_HEADERS
    /\ last.op = "encode"
          => /\ sent.rsp.headers_len <= MAX_HEADERS
             /\ sent.hs = SubSeq(sent.rsp.headers, 1, sent.rsp.headers_len)

\* header() has been called on a response whose header array was full
C10_FullWitness ==
    last.op = "header" /\ last.res.before.headers_len = MAX_HEADERS

(***************************************************************************)
(* The claims about the reason phrases, under SpecReason.                  *)
(***************************************************************************)
MsgUnknownStatusCode == <<"U", "n", "k", "n", "o", "w", "n", " ", "S", "t", "a", "t", "u", "s", " ", "C", "o", "d", "e">>

\* codes of StatusCodes that the table of reason phrases does not have
UnknownCodes == {299, 799}

\* C11: on every way from a numeric code to a reason phrase (ApiService::call
\* and ResponseBuilder::body), a code that is not in the table resolves to
\* the phrase Unknown Status Code.
C11_UnknownCodeHasOnePhrase ==
    (Resolved /\ last.res.builder.status \in UnknownCodes)
        => rsp.status_message = [code |-> last.res.builder.status,
                                 msg |-> MsgUnknownStatusCode]

(***************************************************************************)
(* The claims about registration, under Spec.                              *)
(***************************************************************************)
RegistrationOps ==
    {"route", "any", "get", "post", "put", "delete", "patch", "head", "options"}

\* the methods a registration call registers under, in the order of the call
CalledMethods(c) == IF c.op = "any" THEN c.method ELSE <<c.method>>

\* the routes of method m in the table rt, none when m is no key of it
RoutesOf(rt, m) == IF m \in DOMAIN rt THEN rt[m] ELSE <<>>

Count(ms, m) == Cardinality({n \in 1..Len(ms) : ms[n] = m})

\* C12: a registration call whose pattern does not compile returns
\* InvalidPattern and leaves the routing table as it was, with no new method
\* key; a call that succeeds appends one route per method of the call at the
\* end of that method's list and leaves every earlier route, its position and
\* the lists of the other methods as they were.
C12_RegistrationStep ==
    (Idle /\ last'.op \in RegistrationOps) =>
        LET ms == CalledMethods(last') IN
        IF ~last'.res.ok
        THEN /\ routes' = routes
             /\ last'.res.err = RouterError("InvalidPattern", last'.pattern)
        ELSE /\ DOMAIN routes' = DOMAIN routes \cup {ms[n] : n \in 1..Len(ms)}
             /\ \A m \in DOMAIN routes' :
                   /\ Len(routes'[m]) = Len(RoutesOf(routes, m)) + Count(ms, m)
                   /\ SubSeq(routes'[m], 1, Len(RoutesOf(routes, m)))
                         = RoutesOf(routes, m)
                   /\ \A n \in (Len(RoutesOf(routes, m)) + 1)..Len(routes'[m]) :
                         /\ routes'[m][n].handler = NextHandler
                         /\ routes'[m][n].match_type = last'.match_type

C12_RegistrationIsAppendOnly == [][C12_RegistrationStep]_vars

\* a registration has failed on a router that has routes, under a method
\* that has none
C12_FailedWitness ==
    /\ last.op \in RegistrationOps
    /\ ~last.res.ok
    /\ registered # <<>>
    /\ \E n \in 1..Len(CalledMethods(last)) :
          CalledMethods(last)[n] \notin DOMAIN routes

(***************************************************************************)
(* The claims about one connection, under SpecConn.                        *)
(***************************************************************************)
IsPrefix(a, b) == Len(a) <= Len(b) /\ SubSeq(b, 1, Len(a)) = a

\* C13: after every request, whatever its outcome, the body buffer of the
\* connection is empty, so the Response of the next request starts with no
\* byte of an earlier one; encode and encode_error only append to the output
\* buffer, and what they append is made of the request's own response alone.
C13_RequestsLeaveNothingBehind ==
    /\ Answered => (rsp.rsp_buf = <<>> /\ IsPrefix(sent.before, buf))
    /\ last.op = "new" => rsp = Response_new(<<>>)
    /\ last.op = "encode" =>
          /\ Appended = encode(sent.rsp, <<>>, sent.hs, sent.date)
          /\ AfterBlankLine(Appended) = BodyBytes(sent.rsp)
    /\ last.op = "encode_error" =>
          Appended = encode_error(last.pattern, <<>>, sent.date)

\* a service that had written to the body buffer returned Err, while the
\* response to an earlier request was still in the output buffer
C13_ErrorAfterWriteWitness ==
    /\ last.op = "encode_error"
    /\ sent.rsp.rsp_buf # <<>>
    /\ sent.before # <<>>
    /\ rsp.rsp_buf = <<>>

(***************************************************************************)
(* The claims about connections that share the router, under SpecConc.     *)
(***************************************************************************)
\* what ApiService::call gives for the request of k on the published router
\* when it runs alone
Alone(k) == call(ExampleRouter, k.method, k.path, Response_new(<<>>))

\* C14: no step of request handling changes the routing table, and every
\* connection, in every interleaving, gets for its (method, path) the result
\* that the published router gives in isolation; nothing of the response is
\* written before the handler has returned.
C14_SharedRouterIsReadOnly ==
    /\ routes = ExampleRouter
    /\ \A c \in Conns :
          LET k == conns[c] IN
          /\ k.pc # "closed" => k.service.router = ExampleRouter
          /\ k.pc \in {"closed", "idle", "routing", "writing"}
                => k.rsp = Response_new(<<>>)
          /\ k.pc = "writing"
                => k.response = handle(ExampleRouter,
                                       Method_from_bytes(k.method).method,
                                       k.path).response
          /\ k.pc = "done"
                => [ok |-> k.res.ok, err |-> k.res.err, rsp |-> k.rsp] = Alone(k)

\* two connections are in the same request at different steps of it: the
\* handler of one has returned, the response of the other is written
C14_InterleavedWitness ==
    /\ conns[1].pc = "writing"
    /\ conns[2].pc = "done"
    /\ conns[1].method = conns[2].method
    /\ conns[1].path = conns[2].path
    /\ conns[1].response.status = 200
    /\ conns[2].rsp.status_message.code = 200

(***************************************************************************)
(* The claims about Exact mode and about the errors of handle, under Spec. *)
(***************************************************************************)
\* C15: a route registered in Exact mode with the text t matches the path p
\* if and only if p = t, and such a registration never fails with
\* InvalidPattern.
C15_ExactModeIsLiteral ==
    /\ (last.op = "route" /\ last.match_type = "Exact") => last.res.ok
    /\ last.op = "match_route" =>
          \A n \in RegisteredUnder(last.method) :
              registered[n].match_type = "Exact" =>
                  (n \in Candidates(last.method, last.path)
                      <=> last.path = registered[n].pattern)

\* C16: handle returns Ok for every table, method and path, with the
\* handler's response or a 404 or 405 response; so call returns Ok with the
\* response of its Ok arm (the three service headers first, the body owned)
\* for every method that parses, and its only Err is the invalid-method
\* error raised before routing.
C16_HandleNeverErrs ==
    /\ last.op = "handle" =>
          /\ last.res.ok
          /\ last.res.err = NoError
          /\ match_route(routes, last.method, last.path).ok
                \/ last.res.response.status \in {404, 405}
    /\ last.op = "call" =>
          IF last.res.ok
          THEN /\ last.res.rsp.headers_len >= 3
               /\ SubSeq(last.res.rsp.headers, 1, 3)
                     = <<HdrServerKarics, HdrNoSniff, HdrFrameDeny>>
               /\ last.res.rsp.body.kind = "Vec"
               /\ last.res.rsp.status_message.msg
                     = status_code_to_message(last.res.rsp.status_message.code)
          ELSE /\ last.res.err = [kind |-> "InvalidInput", msg |-> InvalidMethodMsg]
               /\ ~Method_from_bytes(last.method).ok

\* a routing error has gone through the Ok arm of call
C16_ErrorThroughOkArmWitness ==
    /\ last.op = "call"
    /\ last.res.ok
    /\ ~match_route(routes, last.method, last.path).ok
    /\ last.res.rsp.status_message.code = 404
    /\ last.res.rsp.body = Body("Vec", BodyNotFound)
=============================================================================
